---- MODULE Spec2Model ----
(***************************************************************************)
(* Star Barcode (star_barcode.py): the derivation of an edition's sequence *)
(* and ISO week from a date, the barcode file name, the validation of the  *)
(* render parameters, the PostScript text, and the run of main.            *)
(*                                                                         *)
(* Representation of text.  A text is a sequence of pieces.  Every value   *)
(* that the program formats (numbers, dates, the ISSN, a header, a path)   *)
(* is spelled one character per piece, so padding and signs are real.  A   *)
(* literal fragment of a message or of the PostScript template is a single *)
(* piece holding the fragment.                                             *)
(***************************************************************************)
EXTENDS Integers, Sequences, FiniteSets, TLC

VARIABLES
    pc,            \* position of the caller or of main
    call,          \* the library call under way: the function and its arguments
    ret,           \* what the library call returned or raised
    bwippExists,   \* file system: whether the BWIPP library file is present
    libcPadsYear,  \* platform: whether strftime pads %Y and %G to four digits
    arguments,     \* main: the command line
    local,         \* main: its locals seq, week, header, filename, postscript
    error,         \* main: the exception that ended the run
    steps,         \* main: the calls the run has completed, in order
    runs,          \* number of runs of main started
    directory      \* output directory: file name -> the renders written to it

vars == <<pc, call, ret, bwippExists, libcPadsYear, arguments, local, error,
          steps, runs, directory>>

None == [none |-> TRUE]

-----------------------------------------------------------------------------
(* Bounds of the model *)

MaxYear == 2017
MaxRuns == 2

-----------------------------------------------------------------------------
(* The calendar of datetime, which the program reaches through             *)
(* date.isocalendar(), strftime and strptime.                              *)

IsLeap(y) == y % 4 = 0 /\ (y % 100 # 0 \/ y % 400 = 0)

DaysInMonth(y, m) ==
    IF m = 2 THEN (IF IsLeap(y) THEN 29 ELSE 28)
    ELSE IF m \in {4, 6, 9, 11} THEN 30 ELSE 31

DaysBeforeYear(y) ==
    LET p == y - 1 IN p * 365 + (p \div 4) - (p \div 100) + (p \div 400)

RECURSIVE DaysBeforeMonth(_, _)
DaysBeforeMonth(y, m) ==
    IF m = 1 THEN 0 ELSE DaysBeforeMonth(y, m - 1) + DaysInMonth(y, m - 1)

\* proleptic Gregorian ordinal: 0001-01-01 is day 1
ymd2ord(d) == DaysBeforeYear(d.year) + DaysBeforeMonth(d.year, d.month) + d.day

\* ordinal of the Monday that starts ISO week 1 of year y
isoweek1monday(y) ==
    LET firstday     == DaysBeforeYear(y) + 1
        firstweekday == (firstday + 6) % 7
        week1monday  == firstday - firstweekday
    IN IF firstweekday > 3 THEN week1monday + 7 ELSE week1monday

\* date.isocalendar() moving every day of a 53rd week into the next ISO year
isocalendar_week_53_rolls_over(d) ==
    LET today == ymd2ord(d)
        w0    == (today - isoweek1monday(d.year)) \div 7
        d0    == (today - isoweek1monday(d.year)) % 7
    IN IF w0 < 0
         THEN LET m1 == isoweek1monday(d.year - 1)
              IN <<d.year - 1, ((today - m1) \div 7) + 1, ((today - m1) % 7) + 1>>
       ELSE IF w0 >= 52
         THEN <<d.year + 1, 1, d0 + 1>>
       ELSE <<d.year, w0 + 1, d0 + 1>>

\* date.isocalendar(): <<ISO year, ISO week, ISO weekday>>
isocalendar(d) ==
    LET today == ymd2ord(d)
        w0    == (today - isoweek1monday(d.year)) \div 7
        d0    == (today - isoweek1monday(d.year)) % 7
    IN IF w0 < 0
         THEN LET m1 == isoweek1monday(d.year - 1)
              IN <<d.year - 1, ((today - m1) \div 7) + 1, ((today - m1) % 7) + 1>>
       ELSE IF w0 >= 52 /\ today >= isoweek1monday(d.year + 1)
         THEN <<d.year + 1, 1, d0 + 1>>
       ELSE <<d.year, w0 + 1, d0 + 1>>

ValidDate(d) == d.month \in 1..12 /\ d.day \in 1..DaysInMonth(d.year, d.month)

\* date.isoweekday(): Monday is 1, Sunday is 7
isoweekday(d) == IF ymd2ord(d) % 7 = 0 THEN 7 ELSE ymd2ord(d) % 7

\* date.fromordinal(n): the date of proleptic Gregorian ordinal n
ord2ymd(n) ==
    LET y == CHOOSE yy \in (n \div 366)..((n \div 365) + 1) :
                 DaysBeforeYear(yy) < n /\ n <= DaysBeforeYear(yy + 1)
        m == CHOOSE mm \in 1..12 :
                 /\ DaysBeforeYear(y) + DaysBeforeMonth(y, mm) < n
                 /\ n <= DaysBeforeYear(y) + DaysBeforeMonth(y, mm) + DaysInMonth(y, mm)
    IN [year |-> y, month |-> m, day |-> n - DaysBeforeYear(y) - DaysBeforeMonth(y, m)]

\* isoYearStart(isoYear): the Monday that starts ISO week 1, found from
\* January 4th by going back (its ISO weekday - 1) days
iso_year_start(iso_year) ==
    LET fourth_jan == [year |-> iso_year, month |-> 1, day |-> 4]
    IN ymd2ord(fourth_jan) - (isoweekday(fourth_jan) - 1)

\* isoToGregorian(isoYear, isoWeek, isoWeekday), with no validation of ranges
iso_to_gregorian(iso_year, iso_week, iso_weekday) ==
    ord2ymd(iso_year_start(iso_year) + (iso_week - 1) * 7 + (iso_weekday - 1))

-----------------------------------------------------------------------------
(* Formatting *)

Digit(n) == <<"0", "1", "2", "3", "4", "5", "6", "7", "8", "9">>[n + 1]

RECURSIVE Digits(_)
Digits(n) == IF n < 10 THEN <<Digit(n)>> ELSE Digits(n \div 10) \o <<Digit(n % 10)>>

RECURSIVE ZeroFill(_, _)
ZeroFill(s, width) == IF Len(s) >= width THEN s ELSE ZeroFill(<<"0">> \o s, width)

\* '{0}'.format(n), str(n)
PyStr(n) == IF n < 0 THEN <<"-">> \o Digits(-n) ELSE Digits(n)

\* '{n:02}': zero fill to a minimum field width that counts the sign
PyFormatZero(n, width) ==
    IF n < 0 THEN <<"-">> \o ZeroFill(Digits(-n), width - 1)
    ELSE ZeroFill(Digits(n), width)

\* %G and %Y: the platform's strftime pads a year below 1000 or does not
StrfYear(y, pads) == IF pads THEN ZeroFill(Digits(y), 4) ELSE Digits(y)

\* %a, upper-cased by barcode_header
DayAbbrev(wd) ==
    << <<"M", "O", "N">>, <<"T", "U", "E">>, <<"W", "E", "D">>, <<"T", "H", "U">>,
       <<"F", "R", "I">>, <<"S", "A", "T">>, <<"S", "U", "N">> >>[wd]

\* str.upper() over the letters the model's headers use
UpperChar(c) == IF c = "a" THEN "A" ELSE IF c = "b" THEN "B" ELSE c

Upper(s) == [i \in 1..Len(s) |-> UpperChar(s[i])]

\* s occurs in t as a run of consecutive pieces
Contains(t, s) ==
    \E i \in 0..(Len(t) - Len(s)) : SubSeq(t, i + 1, i + Len(s)) = s

-----------------------------------------------------------------------------
(* Results of a call: a returned value, or the exception raised with the   *)
(* raise statement it came from                                             *)

Return(v) == [ok |-> TRUE, value |-> v]

Raise(type, at, message) == [ok |-> FALSE, type |-> type, at |-> at, message |-> message]

-----------------------------------------------------------------------------
(* Module constants *)

\* a path: relative or absolute, and its components
Path(absolute, parts) == [absolute |-> absolute, parts |-> parts]

\* the directory of star_barcode.py, which is also where the callers run
ScriptDir == <<"star-barcode">>

BWIPP == Path(TRUE, ScriptDir \o <<"bwipp", "barcode.ps">>)

ISSN == <<"0", "3", "0", "7", "-", "1", "7", "5", "8">>

PRICE_CODES == <<2, 2, 2, 2, 2, 3, 2>>

\* prices in tenths of a pound; codes 0 and 1 hold None
PRICES == <<None, None, [tenths |-> 10], [tenths |-> 12]>>

-----------------------------------------------------------------------------
(* Paths *)

\* Path.exists(): the only file the model's paths can name is the BWIPP library
Exists(p) ==
    /\ bwippExists
    /\ \/ p = BWIPP
       \/ p = Path(FALSE, <<"bwipp", "barcode.ps">>)

\* Path.resolve(): a relative path is taken from the working directory
Resolve(p) == IF p.absolute THEN p ELSE Path(TRUE, ScriptDir \o p.parts)

RECURSIVE JoinParts(_)
JoinParts(parts) ==
    IF Len(parts) = 0 THEN <<>>
    ELSE IF Len(parts) = 1 THEN <<parts[1]>>
    ELSE <<parts[1], "/">> \o JoinParts(Tail(parts))

\* str(path)
PathStr(p) == (IF p.absolute THEN <<"/">> ELSE <<>>) \o JoinParts(p.parts)

-----------------------------------------------------------------------------
(* barcode_header *)

\* '{price:.1f}' for a price held in tenths
FormatPrice(tenths) == Digits(tenths \div 10) \o <<".">> \o Digits(tenths % 10)

barcode_header(date, price) ==
    IF price = None
      THEN Raise("TypeError", "header",
                 <<"unsupported format string passed to NoneType.__format__">>)
    ELSE Return(Upper(
           <<"M", "S", "T", "A", "R", " ">>
           \o StrfYear(date.year, libcPadsYear) \o <<"-">>
           \o ZeroFill(Digits(date.month), 2) \o <<"-">>
           \o ZeroFill(Digits(date.day), 2) \o <<" ">>
           \o DayAbbrev(isocalendar(date)[3]) \o <<" ">>
           \o FormatPrice(price.tenths)))

-----------------------------------------------------------------------------
(* barcode_filename *)

\* remainder that takes the sign of the dividend, as C's % does
TruncRem(a, b) == IF a >= 0 THEN a % b ELSE -((-a) % b)

\* barcode_filename comparing with a truncated remainder
barcode_filename_truncated_remainder(date, sequence) ==
    LET iso == isocalendar(date) IN
    IF TruncRem(sequence, 10) # iso[3]
      THEN Raise("ValueError", "mismatch",
                 <<"Sequence weekday does not match date: day ">> \o PyStr(iso[3])
                 \o <<" & seq ">> \o PyStr(sequence))
    ELSE Return(
           <<"B", "a", "r", "c", "o", "d", "e", "_">>
           \o StrfYear(iso[1], libcPadsYear) \o <<"-", "W">>
           \o ZeroFill(Digits(iso[2]), 2) \o <<"-">>
           \o Digits(iso[3]) \o <<"_">>
           \o PyFormatZero(sequence, 2) \o <<".", "p", "d", "f">>)

\* barcode_filename with %Y, the Gregorian year, in place of %G
barcode_filename_gregorian_year(date, sequence) ==
    LET iso == isocalendar(date) IN
    IF sequence % 10 # iso[3]
      THEN Raise("ValueError", "mismatch",
                 <<"Sequence weekday does not match date: day ">> \o PyStr(iso[3])
                 \o <<" & seq ">> \o PyStr(sequence))
    ELSE Return(
           <<"B", "a", "r", "c", "o", "d", "e", "_">>
           \o StrfYear(date.year, libcPadsYear) \o <<"-", "W">>
           \o ZeroFill(Digits(iso[2]), 2) \o <<"-">>
           \o Digits(iso[3]) \o <<"_">>
           \o PyFormatZero(sequence, 2) \o <<".", "p", "d", "f">>)

barcode_filename(date, sequence) ==
    LET iso == isocalendar(date) IN
    IF sequence % 10 # iso[3]
      THEN Raise("ValueError", "mismatch",
                 <<"Sequence weekday does not match date: day ">> \o PyStr(iso[3])
                 \o <<" & seq ">> \o PyStr(sequence))
    ELSE Return(
           <<"B", "a", "r", "c", "o", "d", "e", "_">>
           \o StrfYear(iso[1], libcPadsYear) \o <<"-", "W">>
           \o ZeroFill(Digits(iso[2]), 2) \o <<"-">>
           \o Digits(iso[3]) \o <<"_">>
           \o PyFormatZero(sequence, 2) \o <<".", "p", "d", "f">>)

-----------------------------------------------------------------------------
(* date_to_sequence_and_week *)

\* date_to_sequence_and_week indexing the table with the weekday itself
date_to_sequence_and_week_index_off_by_one(date, price_codes) ==
    LET iso_week    == isocalendar(date)[2]
        iso_weekday == isocalendar(date)[3]
    IN IF iso_weekday >= Len(price_codes)
         THEN Raise("IndexError", "index", <<"list index out of range">>)
       ELSE Return(<<price_codes[iso_weekday + 1] * 10 + iso_weekday, iso_week>>)

\* date_to_sequence_and_week with date.weekday(), Monday 0, as the units digit
date_to_sequence_and_week_weekday_from_0(date, price_codes) ==
    LET iso_week    == isocalendar(date)[2]
        iso_weekday == isocalendar(date)[3]
    IN IF iso_weekday - 1 >= Len(price_codes)
         THEN Raise("IndexError", "index", <<"list index out of range">>)
       ELSE Return(<<price_codes[iso_weekday] * 10 + (iso_weekday - 1), iso_week>>)

\* date_to_sequence_and_week taking price code 0 for a weekday the table lacks
date_to_sequence_and_week_default_code(date, price_codes) ==
    LET iso_week    == isocalendar(date)[2]
        iso_weekday == isocalendar(date)[3]
    IN IF iso_weekday - 1 >= Len(price_codes)
         THEN Return(<<iso_weekday, iso_week>>)
       ELSE Return(<<price_codes[iso_weekday] * 10 + iso_weekday, iso_week>>)

date_to_sequence_and_week(date, price_codes) ==
    LET iso_week    == isocalendar(date)[2]
        iso_weekday == isocalendar(date)[3]
    IN IF iso_weekday - 1 >= Len(price_codes)
         THEN Raise("IndexError", "index", <<"list index out of range">>)
       ELSE Return(<<price_codes[iso_weekday] * 10 + iso_weekday, iso_week>>)

-----------------------------------------------------------------------------
(* construct_postscript *)

IsDigit(c) == c \in {"0", "1", "2", "3", "4", "5", "6", "7", "8", "9"}

\* re.match(r'^\d{4}-\d{3,4}$', issn): $ matches at the end of the string and
\* also just before a newline that ends the string
IssnMatch(issn) ==
    LET n    == Len(issn)
        body == IF n > 0 /\ issn[n] = "\n" THEN SubSeq(issn, 1, n - 1) ELSE issn
    IN /\ Len(body) \in {8, 9}
       /\ \A i \in 1..4 : IsDigit(body[i])
       /\ body[5] = "-"
       /\ \A i \in 6..Len(body) : IsDigit(body[i])

\* the text construct_postscript returns once its checks have passed
Postscript(location, issn, seqField, weekField, header_line) ==
    <<"%!PS\n", "(">> \o PathStr(location)
    \o <<")", " run", "\n\n11 5 moveto ", "(">>
    \o issn \o <<" ">> \o seqField \o <<" ">> \o weekField
    \o <<")", " (includetext height=1.07) /issn /uk.co.terryburton.bwipp findresource exec",
         "\n\n% Print header line(s)\n/Courier findfont\n9 scalefont\nsetfont\n\nnewpath\n11 86 moveto\n",
         "(">>
    \o header_line \o <<")", " show", "\n\nshowpage\n">>

\* construct_postscript with 0 < sequence, which turns sequence 0 away
construct_postscript_sequence_from_1(bwipp_location, issn, sequence, week, header_line) ==
    IF ~Exists(bwipp_location)
      THEN Raise("ValueError", "bwipp", <<"BWIPP location is incorrect">>)
    ELSE IF ~IssnMatch(issn)
      THEN Raise("ValueError", "issn",
                 <<"ISSN ">> \o issn \o <<" is in incorrect format">>)
    ELSE IF ~(0 < sequence /\ sequence <= 99)
      THEN Raise("ValueError", "sequence",
                 <<"Sequence ">> \o PyStr(sequence) \o <<" is outside of range 0-99">>)
    ELSE IF ~(0 < week /\ week < 54)
      THEN Raise("ValueError", "week",
                 <<"Week ">> \o PyStr(week)
                 \o <<" is not a valid ISO week. Must be between 1 and 53">>)
    ELSE Return(Postscript(Resolve(bwipp_location), issn, PyFormatZero(sequence, 2),
                           PyFormatZero(week, 2), header_line))

\* construct_postscript formatting the week into the sequence message
construct_postscript_week_in_sequence_message(bwipp_location, issn, sequence, week, header_line) ==
    IF ~Exists(bwipp_location)
      THEN Raise("ValueError", "bwipp", <<"BWIPP location is incorrect">>)
    ELSE IF ~IssnMatch(issn)
      THEN Raise("ValueError", "issn",
                 <<"ISSN ">> \o issn \o <<" is in incorrect format">>)
    ELSE IF ~(0 <= sequence /\ sequence <= 99)
      THEN Raise("ValueError", "sequence",
                 <<"Sequence ">> \o PyStr(week) \o <<" is outside of range 0-99">>)
    ELSE IF ~(0 < week /\ week < 54)
      THEN Raise("ValueError", "week",
                 <<"Week ">> \o PyStr(week)
                 \o <<" is not a valid ISO week. Must be between 1 and 53">>)
    ELSE Return(Postscript(Resolve(bwipp_location), issn, PyFormatZero(sequence, 2),
                           PyFormatZero(week, 2), header_line))

\* construct_postscript writing sequence and week without a field width
construct_postscript_unpadded(bwipp_location, issn, sequence, week, header_line) ==
    IF ~Exists(bwipp_location)
      THEN Raise("ValueError", "bwipp", <<"BWIPP location is incorrect">>)
    ELSE IF ~IssnMatch(issn)
      THEN Raise("ValueError", "issn",
                 <<"ISSN ">> \o issn \o <<" is in incorrect format">>)
    ELSE IF ~(0 <= sequence /\ sequence <= 99)
      THEN Raise("ValueError", "sequence",
                 <<"Sequence ">> \o PyStr(sequence) \o <<" is outside of range 0-99">>)
    ELSE IF ~(0 < week /\ week < 54)
      THEN Raise("ValueError", "week",
                 <<"Week ">> \o PyStr(week)
                 \o <<" is not a valid ISO week. Must be between 1 and 53">>)
    ELSE Return(Postscript(Resolve(bwipp_location), issn, PyStr(sequence),
                           PyStr(week), header_line))

construct_postscript(bwipp_location, issn, sequence, week, header_line) ==
    IF ~Exists(bwipp_location)
      THEN Raise("ValueError", "bwipp", <<"BWIPP location is incorrect">>)
    ELSE IF ~IssnMatch(issn)
      THEN Raise("ValueError", "issn",
                 <<"ISSN ">> \o issn \o <<" is in incorrect format">>)
    ELSE IF ~(0 <= sequence /\ sequence <= 99)
      THEN Raise("ValueError", "sequence",
                 <<"Sequence ">> \o PyStr(sequence) \o <<" is outside of range 0-99">>)
    ELSE IF ~(0 < week /\ week < 54)
      THEN Raise("ValueError", "week",
                 <<"Week ">> \o PyStr(week)
                 \o <<" is not a valid ISO week. Must be between 1 and 53">>)
    ELSE Return(Postscript(Resolve(bwipp_location), issn, PyFormatZero(sequence, 2),
                           PyFormatZero(week, 2), header_line))

-----------------------------------------------------------------------------
(* Callers of the library functions: the arguments they pass *)

Years == {999} \cup (2014..MaxYear)

Dates == {d \in [year : Years, month : 1..12, day : 1..31] : ValidDate(d)}

Tables ==
    { <<>>, <<2, 2>>, <<2, 2, 2, 2, 2, 2>>, PRICE_CODES, <<1, 2, 3, 4, 5, 6, 7>>,
      <<0, 0, 0, 0, 0, 0, 0>>, <<9, 9, 9, 9, 9, 9, 9, 9>>, <<-1, 12, 0, 5>> }

Sequences ==
    (-9..-3) \cup {-13, -10, -1} \cup (0..9) \cup (21..27)
    \cup {31, 36, 98, 99, 100} \cup (101..107)

Locations ==
    { BWIPP, Path(FALSE, <<"bwipp", "barcode.ps">>),
      Path(TRUE, <<"fake-path", "not-here.ps">>) }

Issns ==
    { ISSN,
      <<"0", "3", "0", "7", "-", "1", "7", "5">>,
      <<"0", "3", "0", "7", "-", "1", "5">>,
      <<"0", "3", "0", "7", "-", "1", "5", "7", "8", "9">>,
      <<"0", "3", "0", "7", "1", "7", "5", "8">>,
      <<"0", "3", "0", "7", "1", "7", "5">>,
      <<"0", "3", "0", "7", "-", "1", "7", "a", "8">>,
      <<"0", "3", "0", "7", " ", "1", "7", "5", "8">>,
      ISSN \o <<"\n">>,
      ISSN \o <<" ">>,
      ISSN \o <<"\n", "\n">>,
      <<" ">> \o ISSN,
      <<"\n">> \o ISSN,
      <<>> }

Headers ==
    { <<>>, <<"M", "S", "T", "A", "R", " ", "1", ".", "0">>, <<"a", "b", " ", "(", "{", "0", "}">> }

SeqCalls ==
    [fn : {"date_to_sequence_and_week"}, date : Dates, price_codes : Tables]

NameCalls ==
    [fn : {"barcode_filename"}, date : Dates, sequence : Sequences]

\* every sequence and week around the accepted ranges with the program's own
\* location and ISSN, and every location and ISSN at the edges of the ranges
PsCalls ==
    [fn : {"construct_postscript"}, bwipp_location : {BWIPP}, issn : {ISSN},
     sequence : -2..101, week : -1..55, header_line : Headers]
    \cup
    [fn : {"construct_postscript"}, bwipp_location : Locations, issn : Issns,
     sequence : {-1, 0, 7, 99, 100}, week : {0, 1, 53, 54}, header_line : Headers]

\* the ISO triple of every date, as gregorianToIso hands it to isoToGregorian
IsoCalls ==
    { [fn |-> "iso_to_gregorian", date |-> d, iso |-> isocalendar(d)] : d \in Dates }

NoLocal ==
    [seq |-> None, week |-> None, header |-> None, filename |-> None,
     postscript |-> None]

InitLib ==
    /\ pc = "call"
    /\ \/ call \in SeqCalls
       \/ call \in NameCalls
       \/ call \in PsCalls
       \/ call \in IsoCalls
    /\ ret = None
    /\ bwippExists \in BOOLEAN
    /\ libcPadsYear \in BOOLEAN
    /\ arguments = None
    /\ local = NoLocal
    /\ error = None
    /\ steps = <<>>
    /\ runs = 0
    /\ directory = <<>>

mainVars == <<arguments, local, error, steps, runs, directory>>

CallDateToSequenceAndWeek ==
    /\ pc = "call"
    /\ call.fn = "date_to_sequence_and_week"
    /\ ret' = date_to_sequence_and_week(call.date, call.price_codes)
    /\ pc' = "return"
    /\ UNCHANGED <<call, bwippExists, libcPadsYear, mainVars>>

CallBarcodeFilename ==
    /\ pc = "call"
    /\ call.fn = "barcode_filename"
    /\ ret' = barcode_filename(call.date, call.sequence)
    /\ pc' = "return"
    /\ UNCHANGED <<call, bwippExists, libcPadsYear, mainVars>>

CallConstructPostscript ==
    /\ pc = "call"
    /\ call.fn = "construct_postscript"
    /\ ret' = construct_postscript(call.bwipp_location, call.issn, call.sequence,
                                   call.week, call.header_line)
    /\ pc' = "return"
    /\ UNCHANGED <<call, bwippExists, libcPadsYear, mainVars>>

CallIsoToGregorian ==
    /\ pc = "call"
    /\ call.fn = "iso_to_gregorian"
    /\ ret' = Return(iso_to_gregorian(call.iso[1], call.iso[2], call.iso[3]))
    /\ pc' = "return"
    /\ UNCHANGED <<call, bwippExists, libcPadsYear, mainVars>>

NextLib ==
    \/ CallDateToSequenceAndWeek
    \/ CallBarcodeFilename
    \/ CallConstructPostscript
    \/ CallIsoToGregorian

SpecLib == InitLib /\ [][NextLib]_vars

-----------------------------------------------------------------------------
(* main: the command line, process_arguments, and the run *)

\* a str or an int held in the arguments dict, whose other values are None
StrArg(chars) == [str |-> chars]

IntArg(n) == [int |-> n]

DigitValue(c) == CHOOSE n \in 0..9 : Digit(n) = c

RECURSIVE IntOfDigits(_)
IntOfDigits(t) ==
    IF Len(t) = 0 THEN 0
    ELSE IntOfDigits(SubSeq(t, 1, Len(t) - 1)) * 10 + DigitValue(t[Len(t)])

AllDigits(t) == Len(t) > 0 /\ \A i \in 1..Len(t) : IsDigit(t[i])

\* int(text)
int(t) ==
    IF AllDigits(t) THEN Return(IntOfDigits(t))
    ELSE IF Len(t) > 1 /\ t[1] = "-" /\ AllDigits(Tail(t))
      THEN Return(-IntOfDigits(Tail(t)))
    ELSE Raise("ValueError", "int", <<"invalid literal for int() with base 10: ">> \o t)

\* datetime.strptime(text, '%Y-%m-%d') over texts written YYYY-MM-DD
strptime(t) ==
    IF /\ Len(t) = 10
       /\ \A i \in 1..10 : IF i \in {5, 8} THEN t[i] = "-" ELSE IsDigit(t[i])
       /\ ValidDate([year  |-> IntOfDigits(SubSeq(t, 1, 4)),
                     month |-> IntOfDigits(SubSeq(t, 6, 7)),
                     day   |-> IntOfDigits(SubSeq(t, 9, 10))])
      THEN Return([year  |-> IntOfDigits(SubSeq(t, 1, 4)),
                   month |-> IntOfDigits(SubSeq(t, 6, 7)),
                   day   |-> IntOfDigits(SubSeq(t, 9, 10))])
    ELSE Raise("ValueError", "strptime",
               <<"time data ">> \o t \o <<" does not match format '%Y-%m-%d'">>)

process_arguments(args) ==
    IF args.date # None /\ ~strptime(args.date.str).ok
      THEN strptime(args.date.str)
    ELSE IF args.seq # None /\ ~int(args.seq.str).ok
      THEN int(args.seq.str)
    ELSE IF args.week # None /\ ~int(args.week.str).ok
      THEN int(args.week.str)
    ELSE Return([date   |-> IF args.date # None THEN strptime(args.date.str).value
                            ELSE None,
                 seq    |-> IF args.seq # None THEN IntArg(int(args.seq.str).value)
                            ELSE None,
                 week   |-> IF args.week # None THEN IntArg(int(args.week.str).value)
                            ELSE None,
                 header |-> args.header])

\* the file name main gives a barcode made from details, with its week left out
special_filename_without_week(s, w) ==
    <<"B", "a", "r", "c", "o", "d", "e", "_", "S", "P", "E", "C", "I", "A", "L", "_">>
    \o PyFormatZero(s, 2) \o <<".", "p", "d", "f">>

\* the special filename given a suffix when the output file already exists
special_filename_numbered(s, w) ==
    LET name == <<"B", "a", "r", "c", "o", "d", "e", "_", "S", "P", "E", "C", "I", "A",
                  "L", "_", "W">>
                \o PyFormatZero(w, 2) \o <<"_">> \o PyFormatZero(s, 2)
    IN IF name \o <<".", "p", "d", "f">> \in DOMAIN directory
         THEN name \o <<"_", "1", ".", "p", "d", "f">>
       ELSE name \o <<".", "p", "d", "f">>

\* 'Barcode_SPECIAL_W{w:02}_{s:02}.pdf'.format(s=seq, w=week)
special_filename(s, w) ==
    <<"B", "a", "r", "c", "o", "d", "e", "_", "S", "P", "E", "C", "I", "A", "L", "_",
      "W">>
    \o PyFormatZero(w, 2) \o <<"_">> \o PyFormatZero(s, 2) \o <<".", "p", "d", "f">>

\* PRICES[seq // 10]: a code past the end of the list raises
price_of(s) ==
    IF s \div 10 >= Len(PRICES)
      THEN Raise("IndexError", "prices", <<"list index out of range">>)
    ELSE IF s \div 10 < 0 - Len(PRICES)
      THEN Raise("IndexError", "prices", <<"list index out of range">>)
    ELSE IF s \div 10 < 0 THEN Return(PRICES[Len(PRICES) + (s \div 10) + 1])
    ELSE Return(PRICES[(s \div 10) + 1])

\* the command lines the model runs main with, as docopt hands them over
DateTexts ==
    {ZeroFill(Digits(y), 4) \o <<"-">> \o ZeroFill(Digits(m), 2) \o <<"-">> \o ZeroFill(Digits(d), 2) :
        y \in (MaxYear - 1)..MaxYear, m \in {1, 2, 12}, d \in {1, 29, 30, 31}}

SeqTexts == {<<"0">>, <<"0", "7">>, <<"2", "7">>, <<"9", "9">>, <<"1", "0", "0">>, <<"x">>}

WeekTexts == {<<"0">>, <<"1">>, <<"5", "3">>, <<"5", "4">>}

HeaderTexts == {<<"a", "b">>, <<"M", "S", "T", "A", "R", " ", "1", ".", "0">>}

Argvs ==
    [date : {StrArg(t) : t \in DateTexts}, seq : {None}, week : {None}, header : {None}]
    \cup
    [date : {None}, seq : {StrArg(t) : t \in SeqTexts}, week : {StrArg(t) : t \in WeekTexts},
     header : {StrArg(t) : t \in HeaderTexts}]

NoCall == [fn |-> "none"]

Init ==
    /\ pc = "idle"
    /\ call = NoCall
    /\ ret = None
    /\ bwippExists \in BOOLEAN
    /\ libcPadsYear \in BOOLEAN
    /\ arguments = None
    /\ local = NoLocal
    /\ error = None
    /\ steps = <<>>
    /\ runs = 0
    /\ directory = <<>>

env == <<call, ret, bwippExists, libcPadsYear>>

\* a call of main that raised: the run ends there
Fail(r) ==
    /\ pc' = "failed"
    /\ error' = r

\* main, lines 225-227: docopt, process_arguments
MainProcessArguments ==
    /\ pc = "idle"
    /\ runs < MaxRuns
    /\ runs' = runs + 1
    /\ \E argv \in IF call.fn = "main" THEN {call.cli_args} ELSE Argvs :
          LET r == process_arguments(argv) IN
          IF r.ok
            THEN /\ arguments' = r.value
                 /\ pc' = "arguments"
                 /\ error' = None
                 /\ steps' = <<"process_arguments">>
          ELSE /\ Fail(r)
               /\ arguments' = argv
               /\ steps' = <<>>
    /\ local' = NoLocal
    /\ UNCHANGED <<env, directory>>

\* main, lines 229-232: the date branch, date_to_sequence_and_week
MainDateToSequenceAndWeek ==
    /\ pc = "arguments"
    /\ arguments.date # None
    /\ LET r == date_to_sequence_and_week(arguments.date, PRICE_CODES) IN
       IF r.ok
         THEN /\ local' = [local EXCEPT !.seq = r.value[1], !.week = r.value[2]]
              /\ steps' = Append(steps, "date_to_sequence_and_week")
              /\ pc' = "derived"
              /\ UNCHANGED error
       ELSE Fail(r) /\ UNCHANGED <<local, steps>>
    /\ UNCHANGED <<env, arguments, runs, directory>>

\* main, lines 233-234: barcode_header with PRICES[seq // 10]
MainBarcodeHeader ==
    /\ pc = "derived"
    /\ LET p == price_of(local.seq)
           r == IF p.ok THEN barcode_header(arguments.date, p.value) ELSE p
       IN IF r.ok
            THEN /\ local' = [local EXCEPT !.header = r.value]
                 /\ steps' = Append(steps, "barcode_header")
                 /\ pc' = "headed"
                 /\ UNCHANGED error
          ELSE Fail(r) /\ UNCHANGED <<local, steps>>
    /\ UNCHANGED <<env, arguments, runs, directory>>

\* main, line 235: barcode_filename
MainBarcodeFilename ==
    /\ pc = "headed"
    /\ LET r == barcode_filename(arguments.date, local.seq) IN
       IF r.ok
         THEN /\ local' = [local EXCEPT !.filename = r.value]
              /\ steps' = Append(steps, "barcode_filename")
              /\ pc' = "named"
              /\ UNCHANGED error
       ELSE Fail(r) /\ UNCHANGED <<local, steps>>
    /\ UNCHANGED <<env, arguments, runs, directory>>

\* main, lines 236-240: the branch of seq, week and header given directly
MainDetails ==
    /\ pc = "arguments"
    /\ arguments.date = None
    /\ local' = [local EXCEPT
                    !.seq = arguments.seq.int,
                    !.week = arguments.week.int,
                    !.header = Upper(arguments.header.str),
                    !.filename = special_filename(arguments.seq.int, arguments.week.int)]
    /\ steps' = Append(steps, "details")
    /\ pc' = "named"
    /\ UNCHANGED <<env, arguments, error, runs, directory>>

\* main going on to the renderer whatever construct_postscript raised
MainConstructPostscript_error_swallowed ==
    /\ pc = "named"
    /\ LET r == construct_postscript(BWIPP, ISSN, local.seq, local.week, local.header) IN
       IF r.ok
         THEN /\ local' = [local EXCEPT !.postscript = r.value]
              /\ UNCHANGED error
       ELSE /\ local' = [local EXCEPT !.postscript = <<>>]
            /\ error' = r
    /\ steps' = Append(steps, "construct_postscript")
    /\ pc' = "validated"
    /\ UNCHANGED <<env, arguments, runs, directory>>

\* main, lines 242-249: construct_postscript, which validates before it formats
MainConstructPostscript ==
    /\ pc = "named"
    /\ LET r == construct_postscript(BWIPP, ISSN, local.seq, local.week, local.header) IN
       IF r.ok
         THEN /\ local' = [local EXCEPT !.postscript = r.value]
              /\ steps' = Append(steps, "construct_postscript")
              /\ pc' = "validated"
              /\ UNCHANGED error
       ELSE Fail(r) /\ UNCHANGED <<local, steps>>
    /\ UNCHANGED <<env, arguments, runs, directory>>

\* the renders already written to file f
Renders(f) == IF f \in DOMAIN directory THEN directory[f] ELSE <<>>

\* create_barcode: ghostscript writes the render to the output file, over
\* whatever the file held
create_barcode(ps, output_file, edition) ==
    [f \in DOMAIN directory \cup {output_file} |->
        IF f = output_file
          THEN Append(Renders(f), [edition |-> edition, postscript |-> ps])
        ELSE directory[f]]

\* main, lines 251-252: create_barcode and the return of the path
MainCreateBarcode ==
    /\ pc = "validated"
    /\ directory' = create_barcode(local.postscript, local.filename, arguments)
    /\ steps' = Append(steps, "create_barcode")
    /\ pc' = "done"
    /\ UNCHANGED <<env, arguments, local, error, runs>>

\* the process ends, by return or by the exception; the next run starts afresh
MainExit ==
    /\ pc \in {"done", "failed"}
    /\ pc' = "idle"
    /\ arguments' = None
    /\ local' = NoLocal
    /\ error' = None
    /\ steps' = <<>>
    /\ UNCHANGED <<env, runs, directory>>

Next ==
    \/ MainProcessArguments
    \/ MainDateToSequenceAndWeek
    \/ MainBarcodeHeader
    \/ MainBarcodeFilename
    \/ MainDetails
    \/ MainConstructPostscript
    \/ MainCreateBarcode
    \/ MainExit

Spec == Init /\ [][Next]_vars

\* barcode_from_date and barcode_from_details: a caller that builds cli_args
\* once and calls main with them, again and again
MainCalls == [fn : {"main"}, cli_args : Argvs]

InitTwice ==
    /\ pc = "idle"
    /\ call \in MainCalls
    /\ ret = None
    /\ bwippExists \in BOOLEAN
    /\ libcPadsYear \in BOOLEAN
    /\ arguments = None
    /\ local = NoLocal
    /\ error = None
    /\ steps = <<>>
    /\ runs = 0
    /\ directory = <<>>

\* main, line 252, and the wrappers' return main(...): the caller gets the
\* path, or the exception main raised
MainReturn ==
    /\ pc \in {"done", "failed"}
    /\ call.fn = "main"
    /\ ret' = IF pc = "done" THEN Return(local.filename) ELSE error
    /\ pc' = "idle"
    /\ arguments' = None
    /\ local' = NoLocal
    /\ error' = None
    /\ steps' = <<>>
    /\ UNCHANGED <<call, bwippExists, libcPadsYear, runs, directory>>

NextTwice ==
    \/ MainProcessArguments
    \/ MainDateToSequenceAndWeek
    \/ MainBarcodeHeader
    \/ MainBarcodeFilename
    \/ MainDetails
    \/ MainConstructPostscript
    \/ MainCreateBarcode
    \/ MainReturn

SpecTwice == InitTwice /\ [][NextTwice]_vars

\* the functions called on their own and through main
InitAll == InitLib \/ Init

NextAll == NextLib \/ Next

SpecAll == InitAll /\ [][NextAll]_vars

-----------------------------------------------------------------------------
(* ISO 8601, stated from its definition: weeks start on Monday, and a week *)
(* belongs to the year that holds its Thursday.                            *)

IsoWeekdayOf(d) == ((ymd2ord(d) - 1) % 7) + 1

ThursdayOf(d) == ymd2ord(d) - IsoWeekdayOf(d) + 4

IsoYearOf(d) ==
    CHOOSE y \in (d.year - 1)..(d.year + 1) :
        DaysBeforeYear(y) < ThursdayOf(d) /\ ThursdayOf(d) <= DaysBeforeYear(y + 1)

IsoWeekOf(d) == ((ThursdayOf(d) - DaysBeforeYear(IsoYearOf(d)) - 1) \div 7) + 1

\* the week of the Gregorian year, as strftime's %W counts it
GregorianWeekOf(d) ==
    (DaysBeforeMonth(d.year, d.month) + d.day + 6 - (IsoWeekdayOf(d) - 1)) \div 7

TwoDigits(n) == <<Digit(n \div 10), Digit(n % 10)>>

FourDigits(n) ==
    <<Digit(n \div 1000), Digit((n \div 100) % 10), Digit((n \div 10) % 10), Digit(n % 10)>>

Returned(fn) == pc = "return" /\ call.fn = fn

-----------------------------------------------------------------------------
\* C1: for every date d and every table t with at least isoWeekday(d) entries,
\* date_to_sequence_and_week(d, t) returns the pair
\* (t[isoWeekday(d) - 1] * 10 + isoWeekday(d), isoWeek(d)); 2017-01-01 gives
\* week 52 and weekday 7, not the week of the Gregorian year.
C1_SequenceAndIsoWeek ==
    Returned("date_to_sequence_and_week") =>
        LET d  == call.date
            t  == call.price_codes
            wd == IsoWeekdayOf(d)
        IN /\ Len(t) >= wd => ret = Return(<<t[wd] * 10 + wd, IsoWeekOf(d)>>)
           /\ (d = [year |-> 2017, month |-> 1, day |-> 1] /\ Len(t) >= 7) =>
                 /\ ret.ok
                 /\ ret.value[2] = 52
                 /\ ret.value[1] % 10 = 7
                 /\ ret.value[2] # GregorianWeekOf(d)

C1_Witness ==
    /\ Returned("date_to_sequence_and_week")
    /\ call.date = [year |-> 2017, month |-> 1, day |-> 1]
    /\ call.price_codes = PRICE_CODES
    /\ ret = Return(<<27, 52>>)

-----------------------------------------------------------------------------
\* C2: barcode_filename(d, s) fails with the mismatch error exactly when
\* s % 10 differs from the ISO weekday of d, and returns a file name in every
\* other case, for every integer s, below 0 and above 99 included.
C2_MismatchExactly ==
    Returned("barcode_filename") =>
        IF call.sequence % 10 # IsoWeekdayOf(call.date)
          THEN ~ret.ok /\ ret.type = "ValueError" /\ ret.at = "mismatch"
        ELSE ret.ok /\ Len(ret.value) > 0

C2_Witness ==
    /\ Returned("barcode_filename")
    /\ call.sequence = -3
    /\ IsoWeekdayOf(call.date) = 7
    /\ ret.ok

-----------------------------------------------------------------------------
\* the text 'Barcode_' ... '.pdf' around the four fields of a file name
NameOf(yearField, weekField, dayField, seqField) ==
    <<"B", "a", "r", "c", "o", "d", "e", "_">> \o yearField \o <<"-", "W">>
    \o weekField \o <<"-">> \o dayField \o <<"_">> \o seqField
    \o <<".", "p", "d", "f">>

\* n written with at least two digits, its sign before them
SignedTwoDigits(n) ==
    IF n < 0 THEN <<"-">> \o ZeroFill(Digits(-n), 2) ELSE ZeroFill(Digits(n), 2)

\* C3 as claimed: whenever barcode_filename(d, s) succeeds, the result is
\* 'Barcode_' + ISO week-year padded to 4 digits + '-W' + ISO week padded to 2
\* digits + '-' + ISO weekday + '_' + s padded to 2 digits + '.pdf'.
C3_Original ==
    (Returned("barcode_filename") /\ ret.ok) =>
        ret.value = NameOf(FourDigits(IsoYearOf(call.date)),
                           TwoDigits(IsoWeekOf(call.date)),
                           <<Digit(IsoWeekdayOf(call.date))>>,
                           SignedTwoDigits(call.sequence))

\* C3 as amended: the same, where the sequence field is a zero-filled field of
\* minimum width 2 that counts a minus sign (s >= 0 has at least two digits,
\* s < 0 is written as str(s)), and the year field of a week-year below 1000 is
\* padded to four digits only where the platform's strftime pads it.  The year
\* is the ISO week-year (2017-01-01 with 27 gives Barcode_2016-W52-7_27.pdf) and
\* sequences 1..7 appear as 01..07.
C3_FilenameFormat ==
    (Returned("barcode_filename") /\ ret.ok) =>
        LET d == call.date
            s == call.sequence
            y == IsoYearOf(d)
        IN /\ ret.value =
                NameOf(IF y >= 1000 \/ libcPadsYear THEN FourDigits(y) ELSE Digits(y),
                       TwoDigits(IsoWeekOf(d)),
                       <<Digit(IsoWeekdayOf(d))>>,
                       IF s >= 0 THEN ZeroFill(Digits(s), 2) ELSE <<"-">> \o Digits(-s))
           /\ s \in 1..7 => SubSeq(ret.value, Len(ret.value) - 5, Len(ret.value) - 4)
                              = <<"0", Digit(s)>>

C3_Witness ==
    /\ Returned("barcode_filename")
    /\ call.date = [year |-> 2017, month |-> 1, day |-> 1]
    /\ call.sequence = 27
    /\ ret = Return(<<"B", "a", "r", "c", "o", "d", "e", "_", "2", "0", "1", "6",
                      "-", "W", "5", "2", "-", "7", "_", "2", "7", ".", "p", "d", "f">>)

-----------------------------------------------------------------------------
\* four decimal digits, a hyphen, three or four decimal digits, nothing else
WellFormedIssn(issn) ==
    /\ Len(issn) \in {8, 9}
    /\ \A i \in 1..Len(issn) : IF i = 5 THEN issn[i] = "-" ELSE IsDigit(issn[i])

\* C4: with an existing BWIPP location and a well-formed ISSN,
\* construct_postscript rejects a call exactly when sequence is outside 0..99
\* or week is outside 1..53; an out-of-range sequence raises the sequence-range
\* error, and an out-of-range week (with the sequence in range) the week-range
\* error; every other call produces the render text.
C4_RangesExactly ==
    (/\ Returned("construct_postscript")
     /\ Exists(call.bwipp_location)
     /\ WellFormedIssn(call.issn)) =>
        IF call.sequence \notin 0..99
          THEN ~ret.ok /\ ret.type = "ValueError" /\ ret.at = "sequence"
        ELSE IF call.week \notin 1..53
          THEN ~ret.ok /\ ret.type = "ValueError" /\ ret.at = "week"
        ELSE ret.ok /\ Len(ret.value) > 0

C4_Witness ==
    /\ Returned("construct_postscript")
    /\ Exists(call.bwipp_location)
    /\ WellFormedIssn(call.issn)
    /\ call.sequence = 0
    /\ call.week = 53
    /\ ret.ok

-----------------------------------------------------------------------------
\* C5: with an existing BWIPP location, construct_postscript raises the
\* invalid-ISSN error for every issn that is not exactly four digits, a hyphen
\* and three or four digits, and for no issn of exactly that form.
C5_IssnExactly ==
    (Returned("construct_postscript") /\ Exists(call.bwipp_location)) =>
        ((~ret.ok /\ ret.at = "issn") <=> ~WellFormedIssn(call.issn))

-----------------------------------------------------------------------------
\* the check that the claimed order of validation reports first
FirstInvalid(c) ==
    IF ~Exists(c.bwipp_location) THEN "bwipp"
    ELSE IF ~WellFormedIssn(c.issn) THEN "issn"
    ELSE IF c.sequence \notin 0..99 THEN "sequence"
    ELSE IF c.week \notin 1..53 THEN "week"
    ELSE "none"

\* C6: the render parameters are checked in the order BWIPP location, ISSN,
\* sequence, week: for every combination of valid and invalid parameters
\* construct_postscript reports the error of the first invalid one in that
\* order, and succeeds only when none is invalid.
C6_FirstInvalidReported ==
    Returned("construct_postscript") =>
        IF FirstInvalid(call) = "none" THEN ret.ok
        ELSE ~ret.ok /\ ret.at = FirstInvalid(call)

-----------------------------------------------------------------------------
RECURSIVE JoinInts(_)
JoinInts(t) ==
    IF Len(t) = 0 THEN <<>>
    ELSE IF Len(t) = 1 THEN PyStr(t[1])
    ELSE PyStr(t[1]) \o <<",", " ">> \o JoinInts(Tail(t))

\* repr of a list of integers
ListRepr(t) == <<"[">> \o JoinInts(t) \o <<"]">>

Raised(at) == pc = "return" /\ ~ret.ok /\ ret.at = at

\* the four errors whose message carries the value that was turned away
ValueInMessage ==
    /\ Raised("mismatch") =>
          /\ Contains(ret.message, PyStr(call.sequence))
          /\ Contains(ret.message, PyStr(IsoWeekdayOf(call.date)))
    /\ Raised("issn") => Contains(ret.message, call.issn)
    /\ Raised("sequence") => Contains(ret.message, PyStr(call.sequence))
    /\ Raised("week") => Contains(ret.message, PyStr(call.week))

\* C7 as claimed: every error is raised with a message that includes the
\* offending value: the weekday or the table for the out-of-range lookup, the
\* sequence and weekday for the mismatch, the BWIPP location for the missing
\* file, and the rejected issn, sequence or week.
C7_Original ==
    /\ ValueInMessage
    /\ Raised("index") =>
          \/ Contains(ret.message, PyStr(IsoWeekdayOf(call.date)))
          \/ Contains(ret.message, ListRepr(call.price_codes))
    /\ Raised("bwipp") => Contains(ret.message, PathStr(call.bwipp_location))

\* C7 as amended: the mismatch error includes the sequence and the weekday,
\* and the invalid-ISSN, sequence-range and week-range errors include the
\* rejected issn, sequence and week; the missing-BWIPP error is raised with the
\* fixed message 'BWIPP location is incorrect', without the location, and the
\* out-of-range lookup with the interpreter's 'list index out of range',
\* without the weekday or the table.
C7_MessagesCarryValue ==
    /\ ValueInMessage
    /\ Raised("index") =>
          /\ ret.type = "IndexError"
          /\ ret.message = <<"list index out of range">>
          /\ ~Contains(ret.message, PyStr(IsoWeekdayOf(call.date)))
          /\ ~Contains(ret.message, ListRepr(call.price_codes))
    /\ Raised("bwipp") =>
          /\ ret.message = <<"BWIPP location is incorrect">>
          /\ ~Contains(ret.message, PathStr(call.bwipp_location))
    /\ (pc = "return" /\ ~ret.ok) =>
          ret.at \in {"index", "mismatch", "bwipp", "issn", "sequence", "week"}

C7_Witness ==
    /\ Raised("sequence")
    /\ call.sequence = 100
    /\ call.week = 54
    /\ ret.message = <<"Sequence ", "1", "0", "0", " is outside of range 0-99">>

-----------------------------------------------------------------------------
\* C8: for every call of construct_postscript that passes validation, the
\* returned text contains '(<issn> <SS> <WW>)' with the sequence and the week
\* each zero-padded to exactly two digits, the resolved BWIPP location in its
\* 'run' line, and the header line unchanged in its 'show' line.
C8_RenderText ==
    (Returned("construct_postscript") /\ ret.ok) =>
        /\ Contains(ret.value,
                    <<"(">> \o call.issn \o <<" ">> \o TwoDigits(call.sequence)
                    \o <<" ">> \o TwoDigits(call.week) \o <<")">>)
        /\ Contains(ret.value,
                    <<"(">> \o PathStr(Resolve(call.bwipp_location)) \o <<")", " run">>)
        /\ PathStr(Resolve(call.bwipp_location))
              = <<"/", "star-barcode", "/", "bwipp", "/", "barcode.ps">>
        /\ Contains(ret.value, <<"(">> \o call.header_line \o <<")", " show">>)

C8_Witness ==
    /\ Returned("construct_postscript")
    /\ ret.ok
    /\ call.sequence = 7
    /\ call.week = 1
    /\ ~call.bwipp_location.absolute
    /\ call.header_line = <<"a", "b", " ", "(", "{", "0", "}">>
    /\ Contains(ret.value, ISSN \o <<" ", "0", "7", " ", "0", "1", ")">>)

-----------------------------------------------------------------------------
\* the calls a run of main completes before it reaches the renderer
StepsBeforeRender ==
    IF arguments.date # None
      THEN <<"process_arguments", "date_to_sequence_and_week", "barcode_header",
             "barcode_filename", "construct_postscript">>
    ELSE <<"process_arguments", "details", "construct_postscript">>

\* C9: in every run of main, in date mode or with explicit details, the
\* renderer (create_barcode) is invoked, and the output directory changes, only
\* after the sequence derivation, the file name and the validation of the
\* render parameters have all succeeded; a run in which any of them raises
\* ends without invoking the renderer and writes no file.
C9_RenderOnlyAfterValidation ==
    [][/\ directory' # directory =>
            /\ pc = "validated" /\ pc' = "done"
            /\ error = None
            /\ steps = StepsBeforeRender
            /\ construct_postscript(BWIPP, ISSN, local.seq, local.week, local.header).ok
            /\ local.postscript
                 = construct_postscript(BWIPP, ISSN, local.seq, local.week,
                                        local.header).value
            /\ steps' = Append(steps, "create_barcode")
       /\ error # None => directory' = directory
       /\ pc' = "failed" => (error' # None /\ directory' = directory)
       /\ "create_barcode" \in {steps'[i] : i \in 1..Len(steps')} =>
            (pc' = "done" /\ error' = None)
      ]_vars

C9_Witness ==
    /\ runs = 2
    /\ pc = "failed"
    /\ error.at = "week"
    /\ steps = <<"process_arguments", "details">>
    /\ Cardinality(DOMAIN directory) = 1
    /\ \A f \in DOMAIN directory : Len(directory[f]) = 1

-----------------------------------------------------------------------------
\* the editions whose renders were written to file f, in order
EditionsOf(f) == [i \in 1..Len(directory[f]) |-> directory[f][i].edition]

\* C10 as claimed: two successful runs of main into the same directory, with
\* two different dates or with two different (sequence, week, header) triples,
\* never write the same file name.
C10_Original ==
    \A f \in DOMAIN directory :
        \A i, j \in 1..Len(directory[f]) : EditionsOf(f)[i] = EditionsOf(f)[j]

\* two editions that main gives one file name: the same date, or details with
\* the same sequence and week
SameFileKey(a, b) ==
    IF a.date # None \/ b.date # None THEN a.date = b.date
    ELSE a.seq = b.seq /\ a.week = b.week

\* C10 as amended: two successful runs of main into the same directory write
\* different file names when they are given two different dates, or details
\* with two different (sequence, week) pairs, or one a date and the other
\* details.  Details that differ only in the header (the file name has no year
\* and no header) share the file name, and the later run overwrites the file.
C10_DistinctKeysDistinctFiles ==
    /\ \A f \in DOMAIN directory :
          \A i, j \in 1..Len(directory[f]) :
              SameFileKey(EditionsOf(f)[i], EditionsOf(f)[j])
    /\ \A f, g \in DOMAIN directory :
          SameFileKey(EditionsOf(f)[1], EditionsOf(g)[1]) => f = g

C10_Witness ==
    /\ runs = 2
    /\ pc = "done"
    /\ Cardinality(DOMAIN directory) = 2
    /\ \E f, g \in DOMAIN directory :
          /\ EditionsOf(f)[1].date = None
          /\ EditionsOf(g)[1].date = None
          /\ EditionsOf(f)[1].seq = EditionsOf(g)[1].seq
          /\ EditionsOf(f)[1].week # EditionsOf(g)[1].week

-----------------------------------------------------------------------------
\* C11: date_to_sequence_and_week(d, t) raises an out-of-range (index) error
\* and returns no result exactly when t has fewer than isoWeekday(d) entries;
\* a table shorter than 7 with at least isoWeekday(d) entries succeeds, and the
\* price code of the result is always the table's entry, never a default.
C11_IndexErrorExactly ==
    Returned("date_to_sequence_and_week") =>
        LET t  == call.price_codes
            wd == IsoWeekdayOf(call.date)
        IN IF Len(t) < wd
             THEN /\ ~ret.ok
                  /\ ret.type = "IndexError"
                  /\ "value" \notin DOMAIN ret
           ELSE /\ ret.ok
                /\ (ret.value[1] - wd) \div 10 = t[wd]
                /\ (ret.value[1] - wd) % 10 = 0

C11_Witness ==
    /\ Returned("date_to_sequence_and_week")
    /\ call.price_codes = <<2, 2>>
    /\ call.date = [year |-> 2016, month |-> 11, day |-> 15]
    /\ ret = Return(<<22, 46>>)

-----------------------------------------------------------------------------
\* C12: for every date d, converting d to its ISO year, week and weekday and
\* converting that triple back with isoToGregorian gives d again, also for the
\* dates whose ISO year differs from their Gregorian year.
C12_RoundTrip ==
    Returned("iso_to_gregorian") => ret.value = call.date

\* 1 January 2017 is the Sunday of week 52 of ISO year 2016
C12_Witness ==
    /\ Returned("iso_to_gregorian")
    /\ call.date = [year |-> 2017, month |-> 1, day |-> 1]
    /\ call.iso = <<2016, 52, 7>>
    /\ ret.value = call.date

-----------------------------------------------------------------------------
-----------------------------------------------------------------------------
\* C14: a sequence derived from a date is consistent with the date: whenever
\* date_to_sequence_and_week(d, t) returns, for any integer table t that
\* covers the weekday of d, the sequence s has s % 10 = isoWeekday(d), a digit
\* of 1..7, so barcode_filename(d, s) does not raise the mismatch error and
\* the date branch of main never fails at the filename step.
C14_DerivedSequenceConsistent ==
    /\ (Returned("date_to_sequence_and_week") /\ ret.ok) =>
          LET s  == ret.value[1]
              wd == IsoWeekdayOf(call.date)
          IN /\ wd \in 1..7
             /\ s % 10 = wd
             /\ barcode_filename(call.date, s).ok
    /\ pc = "headed" =>
          /\ local.seq % 10 = IsoWeekdayOf(arguments.date)
          /\ barcode_filename(arguments.date, local.seq).ok
    /\ pc = "failed" => error.at # "mismatch"

\* a Monday with the price code -1: the sequence is -9, and -9 % 10 = 1
C14_Witness ==
    /\ Returned("date_to_sequence_and_week")
    /\ call.price_codes = <<-1, 12, 0, 5>>
    /\ IsoWeekdayOf(call.date) = 1
    /\ ret.ok
    /\ ret.value[1] = -9
    /\ barcode_filename(call.date, -9).ok

====
